---- MODULE Spec2Model ----
(***************************************************************************)
(* Model of the two coroutine primitives of the repository:                *)
(*   common::AwaitableGuarded<T>   (common/utils/AwaitableGuarded.h)       *)
(*   server::resume_on_io_loop     (server/utils/switch_to_io_loop.h)      *)
(* Reactors are drogon IO loops: one thread each, running queued           *)
(* callbacks to completion, one at a time, in FIFO order.                  *)
(***************************************************************************)
EXTENDS Integers, Sequences, FiniteSets, TLC

\* ------------------------------------------------------------------ bounds
NTasks == 2        \* coroutines that each make one lock acquisition
NReactors == 2     \* IO loops (drogon::app().getThreadNum())
MaxObjs == 2       \* proxy objects one acquisition may be moved through

Tasks == 1..NTasks
Reactors == 0..(NReactors - 1)

\* -------------------------------------------------- AwaitableGuarded state
VARIABLES
    m_state,    \* std::atomic<int> m_state
    pc,         \* per task: position in co_await lock_shared()/lock_unique()
    mode,       \* per task: "shared" | "unique" | "none" (awaitable type)
    home,       \* per task: reactor the task runs on (getCurrentThreadIndex);
                \* 0 again once the task is done with the lock
    current,    \* per task: the local `current` of SharedLockAwaitable::try_lock
    proxies,    \* per task: live proxy objects, each its m_guarded != nullptr
    releases,   \* per task: how many times a destructor released the lock
    queue,      \* per reactor: callbacks queued with queueInLoop
    running,    \* per reactor: task whose try_lock is between load and CAS, or 0
    polls,      \* parity of the failed re-checks so far (makes each one a step)
    m_data,     \* T m_data, the guarded value
    published,  \* m_data as it was when a UniqueProxy last released the lock
    dirty,      \* per task: it wrote m_data through its UniqueProxy
    nested      \* per task: the holder whose coroutine makes this acquisition
                \* while it holds its proxy, or 0

lockVars == <<m_state, pc, mode, home, current, proxies, releases, queue, running, polls,
              m_data, published, dirty, nested>>

\* ------------------------------------------- resume_on_io_loop variables
VARIABLES
    w_pc,        \* per wrap: position of the detached lambda-coroutine
    w_task,      \* per wrap: the awaiting coroutine: running/suspended/resumed
    w_void,      \* per wrap: std::is_void_v<ResultType>
    w_caller,    \* per wrap: thread that ran await_suspend
    m_original_thread_index,
    m_result,    \* per wrap: the std::variant result slot
    w_inner,     \* per wrap: how the inner awaiter completed
    w_doneOn,    \* per wrap: thread the inner awaiter completed on
    w_queue,     \* per reactor: resumptions queued with queueInLoop
    w_outcome,   \* per wrap: what await_resume did
    w_resumedOn, \* per wrap: thread that ran handle.resume()
    w_writes,    \* per wrap: emplace calls on m_result
    w_posts,     \* per wrap: queueInLoop calls for the resumption
    w_sync,      \* per wrap: the inner awaiter is complete when awaited
    w_via        \* per wrap: how the task continued: "none"/"queue"/"inline"

wrapVars == <<w_pc, w_task, w_void, w_caller, m_original_thread_index, m_result,
              w_inner, w_doneOn, w_queue, w_outcome, w_resumedOn, w_writes, w_posts,
              w_sync, w_via>>

VARIABLES
    r_void,      \* per awaiter: std::is_void_v<ResultType>
    r_slot,      \* per awaiter: m_result when await_resume is called
    r_out        \* per awaiter: what await_resume did, or NotCalled

resumeVars == <<r_void, r_slot, r_out>>

\* ------------------------------------------------- isHolding variables
VARIABLES
    ih_state,    \* per resource: its m_state when isHolding is called
    ih_mine,     \* per resource: the caller holds a proxy of it
    ih_value,    \* per T object: its value
    ih_call      \* the isHolding call made and its result, or NoCall

holdVars == <<ih_state, ih_mine, ih_value, ih_call>>

\* ---------------------------------------------- AwaitableGuarded model
\* m_state{0}: the lock is free.
FreeState == 0
\* the value a unique holder stores.
UniqueState == -1

\* std::atomic<int>::compare_exchange_strong(expected, desired) on value st.
CompareExchange(st, expected, desired) ==
    [ok |-> st = expected, st |-> IF st = expected THEN desired ELSE st]

\* SharedLockAwaitable::try_lock, `if(current >= 0)`.
SharedMayTry(cur) == cur >= 0

SharedDesiredMut(cur) == 1
\* SharedLockAwaitable::try_lock, the CAS's desired value `current + 1`.
SharedDesired(cur) == cur + 1

SharedCasRetryMut(st, cur) ==
    [ok |-> st >= 0, st |-> IF st >= 0 THEN st + 1 ELSE st]
\* SharedLockAwaitable::try_lock after the load: one CAS, no retry.
SharedCas(st, cur) == CompareExchange(st, cur, SharedDesired(cur))

\* UniqueLockAwaitable::try_lock: one CAS 0 -> -1.
UniqueTryLock(st) == CompareExchange(st, FreeState, UniqueState)

\* ~SharedProxy: fetch_sub(1).
SharedRelease(st) == st - 1

\* ~UniqueProxy: store(0).
UniqueRelease(st) == FreeState

\* The destructors' guard `if(m_guarded)` and their release.
DestructorRelease(md, guarded, st) ==
    IF ~guarded THEN st
    ELSE IF md = "shared" THEN SharedRelease(st) ELSE UniqueRelease(st)

\* Proxy(Proxy&&) = default over `const std::shared_ptr m_guarded`: a const
\* member cannot be moved from, so the constructor copies it and the
\* moved-from proxy keeps its pointer.
MovedFromGuarded(guarded) == guarded

\* queueInLoop([this]{ spin(); }) and queueInLoop([h]{ h.resume(); }).
SpinCallback(t) == [kind |-> "spin", task |-> t]
ResumeCallback(t) == [kind |-> "resume", task |-> t]
Enqueue(q, r, cb) == [q EXCEPT ![r] = Append(@, cb)]

LockInit ==
    /\ m_state = FreeState
    /\ pc = [t \in Tasks |-> "idle"]
    /\ mode = [t \in Tasks |-> "none"]
    /\ home = [t \in Tasks |-> 0]
    /\ current = [t \in Tasks |-> 0]
    /\ proxies = [t \in Tasks |-> <<>>]
    /\ releases = [t \in Tasks |-> 0]
    /\ queue = [r \in Reactors |-> <<>>]
    /\ running = [r \in Reactors |-> 0]
    /\ polls = 0
    /\ m_data = "d0"
    /\ published = "d0"
    /\ dirty = [t \in Tasks |-> FALSE]
    /\ nested = [t \in Tasks |-> 0]

FirstSucceedsQueuedMut(t) ==
    /\ pc' = [pc EXCEPT ![t] = "holding"]
    /\ proxies' = [proxies EXCEPT ![t] = <<TRUE>>]
    /\ queue' = Enqueue(queue, 0, SpinCallback(t))
    /\ polls' = polls
\* LockAwaitableBase::await_ready returned true: await_resume builds the proxy.
FirstSucceeds(t) ==
    /\ pc' = [pc EXCEPT ![t] = "holding"]
    /\ proxies' = [proxies EXCEPT ![t] = <<TRUE>>]
    /\ queue' = queue
    /\ polls' = polls

\* LockAwaitableBase::await_ready returned false: await_suspend queues spin().
FirstFails(t, r) ==
    /\ pc' = [pc EXCEPT ![t] = "suspended"]
    /\ proxies' = proxies
    /\ queue' = Enqueue(queue, r, SpinCallback(t))
    /\ polls' = polls

SpinSucceedsInlineMut(t, r) ==
    /\ pc' = [pc EXCEPT ![t] = "holding"]
    /\ proxies' = [proxies EXCEPT ![t] = <<TRUE>>]
    /\ queue' = queue
    /\ polls' = polls
\* LockAwaitableBase::spin, try_lock() true: queue the resumption.
SpinSucceeds(t, r) ==
    /\ pc' = [pc EXCEPT ![t] = "resuming"]
    /\ proxies' = proxies
    /\ queue' = Enqueue(queue, r, ResumeCallback(t))
    /\ polls' = polls

SpinFailsLostMut(t, r) ==
    /\ pc' = [pc EXCEPT ![t] = "suspended"]
    /\ proxies' = proxies
    /\ queue' = queue
    /\ polls' = 1 - polls
\* LockAwaitableBase::spin, try_lock() false: queue spin() again.
SpinFails(t, r) ==
    /\ pc' = [pc EXCEPT ![t] = "suspended"]
    /\ proxies' = proxies
    /\ queue' = Enqueue(queue, r, SpinCallback(t))
    /\ polls' = 1 - polls

\* A task on reactor r awaits lock_unique(): await_ready runs try_lock.
StartUnique(t, r) ==
    /\ UNCHANGED <<wrapVars, resumeVars, holdVars, m_data, published, dirty, nested>>
    /\ pc[t] = "idle"
    /\ \A u \in Tasks : u < t => pc[u] # "idle"
    /\ running[r] = 0
    /\ mode' = [mode EXCEPT ![t] = "unique"]
    /\ home' = [home EXCEPT ![t] = r]
    /\ m_state' = UniqueTryLock(m_state).st
    /\ IF UniqueTryLock(m_state).ok THEN FirstSucceeds(t) ELSE FirstFails(t, r)
    /\ UNCHANGED <<current, releases, running>>

\* A task on reactor r awaits lock_shared(): await_ready runs try_lock up to
\* and including the load of m_state.
StartShared(t, r) ==
    /\ UNCHANGED <<wrapVars, resumeVars, holdVars, m_data, published, dirty, nested>>
    /\ pc[t] = "idle"
    /\ \A u \in Tasks : u < t => pc[u] # "idle"
    /\ running[r] = 0
    /\ mode' = [mode EXCEPT ![t] = "shared"]
    /\ home' = [home EXCEPT ![t] = r]
    /\ current' = [current EXCEPT ![t] = IF SharedMayTry(m_state) THEN m_state ELSE 0]
    /\ IF SharedMayTry(m_state)
       THEN /\ pc' = [pc EXCEPT ![t] = "first_cas"]
            /\ running' = [running EXCEPT ![r] = t]
            /\ UNCHANGED <<proxies, queue, polls>>
       ELSE /\ FirstFails(t, r)
            /\ running' = running
    /\ UNCHANGED <<m_state, releases>>

\* The compare_exchange_strong of a shared try_lock, first attempt or re-check.
SharedCasStep(t) ==
    /\ UNCHANGED <<wrapVars, resumeVars, holdVars, m_data, published, dirty, nested>>
    /\ pc[t] \in {"first_cas", "spin_cas"}
    /\ running[home[t]] = t
    /\ m_state' = SharedCas(m_state, current[t]).st
    /\ running' = [running EXCEPT ![home[t]] = 0]
    /\ IF pc[t] = "first_cas"
       THEN IF SharedCas(m_state, current[t]).ok
            THEN FirstSucceeds(t) ELSE FirstFails(t, home[t])
       ELSE IF SharedCas(m_state, current[t]).ok
            THEN SpinSucceeds(t, home[t]) ELSE SpinFails(t, home[t])
    /\ current' = [current EXCEPT ![t] = 0]
    /\ UNCHANGED <<mode, home, releases>>

\* Reactor r runs the callback at the head of its queue: spin() of a unique
\* waiter, spin() of a shared waiter up to the load, or h.resume().
RunSpinUnique(r) ==
    /\ UNCHANGED <<wrapVars, resumeVars, holdVars, m_data, published, dirty, nested>>
    /\ running[r] = 0
    /\ queue[r] # <<>>
    /\ Head(queue[r]).kind = "spin"
    /\ mode[Head(queue[r]).task] = "unique"
    /\ LET t == Head(queue[r]).task
           q == [queue EXCEPT ![r] = Tail(@)]
       IN /\ m_state' = UniqueTryLock(m_state).st
          /\ IF UniqueTryLock(m_state).ok
             THEN /\ pc' = [pc EXCEPT ![t] = "resuming"]
                  /\ queue' = Enqueue(q, r, ResumeCallback(t))
                  /\ polls' = polls
             ELSE /\ pc' = [pc EXCEPT ![t] = "suspended"]
                  /\ queue' = Enqueue(q, r, SpinCallback(t))
                  /\ polls' = 1 - polls
    /\ UNCHANGED <<mode, home, current, proxies, releases, running>>

RunSpinShared(r) ==
    /\ UNCHANGED <<wrapVars, resumeVars, holdVars, m_data, published, dirty, nested>>
    /\ running[r] = 0
    /\ queue[r] # <<>>
    /\ Head(queue[r]).kind = "spin"
    /\ mode[Head(queue[r]).task] = "shared"
    /\ LET t == Head(queue[r]).task
           q == [queue EXCEPT ![r] = Tail(@)]
       IN /\ current' = [current EXCEPT ![t] = IF SharedMayTry(m_state) THEN m_state ELSE 0]
          /\ IF SharedMayTry(m_state)
             THEN /\ pc' = [pc EXCEPT ![t] = "spin_cas"]
                  /\ running' = [running EXCEPT ![r] = t]
                  /\ queue' = q
                  /\ polls' = polls
             ELSE /\ pc' = [pc EXCEPT ![t] = "suspended"]
                  /\ running' = running
                  /\ queue' = Enqueue(q, r, SpinCallback(t))
                  /\ polls' = 1 - polls
    /\ UNCHANGED <<m_state, mode, home, proxies, releases>>

\* h.resume(): await_resume builds the proxy from the awaitable's `guarded`.
RunResume(r) ==
    /\ UNCHANGED <<wrapVars, resumeVars, holdVars, m_data, published, dirty, nested>>
    /\ running[r] = 0
    /\ queue[r] # <<>>
    /\ Head(queue[r]).kind = "resume"
    /\ LET t == Head(queue[r]).task
       IN /\ pc' = [pc EXCEPT ![t] = "holding"]
          /\ proxies' = [proxies EXCEPT ![t] = <<TRUE>>]
    /\ queue' = [queue EXCEPT ![r] = Tail(@)]
    /\ UNCHANGED <<m_state, mode, home, current, releases, running, polls>>

\* The coroutine of holder t is suspended in (or about to go on from) an
\* acquisition it awaited while holding: it can run nothing else.
Blocked(t) ==
    \E u \in Tasks :
        nested[u] = t /\ pc[u] \in {"first_cas", "suspended", "spin_cas", "resuming"}

\* The holder move-constructs proxy i into a new proxy object.
MoveProxy(t, i) ==
    /\ UNCHANGED <<wrapVars, resumeVars, holdVars, m_data, published, dirty, nested>>
    /\ pc[t] = "holding"
    /\ ~Blocked(t)
    /\ i \in 1..Len(proxies[t])
    /\ Len(proxies[t]) + releases[t] < MaxObjs
    /\ running[home[t]] = 0
    /\ proxies' = [proxies EXCEPT ![t] =
                      Append([@ EXCEPT ![i] = MovedFromGuarded(@)], proxies[t][i])]
    /\ UNCHANGED <<m_state, pc, mode, home, current, releases, queue, running, polls>>

RemoveAt(s, i) == SubSeq(s, 1, i - 1) \o SubSeq(s, i + 1, Len(s))

\* Proxy object i of the holder goes out of scope: ~SharedProxy / ~UniqueProxy.
DestroyProxy(t, i) ==
    /\ UNCHANGED <<wrapVars, resumeVars, holdVars, m_data, dirty, nested>>
    /\ pc[t] = "holding"
    /\ i \in 1..Len(proxies[t])
    /\ running[home[t]] = 0
    /\ ~Blocked(t)
    /\ published' = IF proxies[t][i] /\ mode[t] = "unique" THEN m_data ELSE published
    /\ m_state' = DestructorRelease(mode[t], proxies[t][i], m_state)
    /\ releases' = [releases EXCEPT ![t] = IF proxies[t][i] THEN @ + 1 ELSE @]
    /\ proxies' = [proxies EXCEPT ![t] = RemoveAt(@, i)]
    /\ pc' = [pc EXCEPT ![t] = IF Len(proxies[t]) = 1 THEN "done" ELSE @]
    /\ home' = [home EXCEPT ![t] = IF Len(proxies[t]) = 1 THEN 0 ELSE @]
    /\ UNCHANGED <<mode, current, queue, running, polls>>

\* The values a holder writes into m_data.
DataValues == {"d1", "d2"}

\* A unique holder assigns through UniqueProxy::operator-> / operator*.
WriteData(t, v) ==
    /\ UNCHANGED <<wrapVars, resumeVars, holdVars>>
    /\ pc[t] = "holding"
    /\ mode[t] = "unique"
    /\ Len(proxies[t]) > 0
    /\ running[home[t]] = 0
    /\ ~Blocked(t)
    /\ v # m_data
    /\ m_data' = v
    /\ dirty' = [dirty EXCEPT ![t] = TRUE]
    /\ UNCHANGED <<m_state, pc, mode, home, current, proxies, releases, queue, running,
                   polls, published, nested>>

\* The coroutine of holder t, on its reactor and without releasing, awaits
\* lock_unique() of the same resource: the acquisition u.
ReacquireUnique(u, t) ==
    /\ UNCHANGED <<wrapVars, resumeVars, holdVars, m_data, published, dirty>>
    /\ pc[u] = "idle"
    /\ \A v \in Tasks : v < u => pc[v] # "idle"
    /\ pc[t] = "holding"
    /\ ~Blocked(t)
    /\ running[home[t]] = 0
    /\ nested' = [nested EXCEPT ![u] = t]
    /\ mode' = [mode EXCEPT ![u] = "unique"]
    /\ home' = [home EXCEPT ![u] = home[t]]
    /\ m_state' = UniqueTryLock(m_state).st
    /\ IF UniqueTryLock(m_state).ok THEN FirstSucceeds(u) ELSE FirstFails(u, home[t])
    /\ UNCHANGED <<current, releases, running>>

\* The same with lock_shared(), up to and including the load of m_state.
ReacquireShared(u, t) ==
    /\ UNCHANGED <<wrapVars, resumeVars, holdVars, m_data, published, dirty>>
    /\ pc[u] = "idle"
    /\ \A v \in Tasks : v < u => pc[v] # "idle"
    /\ pc[t] = "holding"
    /\ ~Blocked(t)
    /\ running[home[t]] = 0
    /\ nested' = [nested EXCEPT ![u] = t]
    /\ mode' = [mode EXCEPT ![u] = "shared"]
    /\ home' = [home EXCEPT ![u] = home[t]]
    /\ current' = [current EXCEPT ![u] = IF SharedMayTry(m_state) THEN m_state ELSE 0]
    /\ IF SharedMayTry(m_state)
       THEN /\ pc' = [pc EXCEPT ![u] = "first_cas"]
            /\ running' = [running EXCEPT ![home[t]] = u]
            /\ UNCHANGED <<proxies, queue, polls>>
       ELSE /\ FirstFails(u, home[t])
            /\ running' = running
    /\ UNCHANGED <<m_state, releases>>

LockNext ==
    \/ \E t \in Tasks, r \in Reactors : StartUnique(t, r)
    \/ \E t \in Tasks, r \in Reactors : StartShared(t, r)
    \/ \E t \in Tasks : SharedCasStep(t)
    \/ \E r \in Reactors : RunSpinUnique(r)
    \/ \E r \in Reactors : RunSpinShared(r)
    \/ \E r \in Reactors : RunResume(r)
    \/ \E t \in Tasks, i \in 1..MaxObjs : MoveProxy(t, i)
    \/ \E t \in Tasks, i \in 1..MaxObjs : DestroyProxy(t, i)

\* ------------------------------------------------ resume_on_io_loop state
NWraps == 1        \* tasks that each await one switch_to_io_loop(op)
NAwaiters == 2     \* awaiter objects await_resume is applied to on its own

Wraps == 1..NWraps
\* Threads: the reactors, and one thread that is no IO loop (a DB worker).
Threads == 0..NReactors
Values == {"V1", "V2"}
Errors == {"E1", "E2"}

Monostate == [tag |-> "monostate", payload |-> "none"]
ExceptionPtr(e) == [tag |-> "exception", payload |-> e]
ResultValue(v) == [tag |-> "value", payload |-> v]
\* The alternatives of m_result: the void variant has no ResultType.
Slots(isVoid) ==
    {Monostate} \cup {ExceptionPtr(e) : e \in Errors}
                \cup (IF isVoid THEN {} ELSE {ResultValue(v) : v \in Values})

NoResult == [ok |-> FALSE, payload |-> "none"]
\* How `co_await self->m_inner_awaiter` can end: a value (nothing for a void
\* awaiter) or an exception.
InnerResults(isVoid) ==
    {[ok |-> TRUE, payload |-> v] : v \in (IF isVoid THEN {"void"} ELSE Values)}
        \cup {[ok |-> FALSE, payload |-> e] : e \in Errors}

NotCalled == [kind |-> "not_called", payload |-> "none"]

\* drogon::app().getCurrentThreadIndex(): the IO loop's index on a reactor
\* thread, an index no IO loop has on any other thread.
CurrentThreadIndex(th) == th

OriginIndexMut(idx) == 0
OriginIndexNoFallbackMut(idx) == idx
\* await_suspend: m_original_thread_index, with the fallback to loop 0.
OriginIndex(idx) == IF idx >= NReactors THEN 0 ELSE idx

StoreOutcomeMut(isVoid, slot, res) ==
    IF res.ok /\ ~isVoid THEN ResultValue(res.payload) ELSE slot
\* The detached lambda's try/catch around the inner co_await.
StoreOutcome(isVoid, slot, res) ==
    IF res.ok
    THEN IF isVoid THEN slot ELSE ResultValue(res.payload)
    ELSE ExceptionPtr(res.payload)

AwaitResumeGenericMut(isVoid, slot) ==
    IF slot.tag = "exception"
    THEN [kind |-> "runtime_error", payload |-> "none"]
    ELSE IF ~isVoid
         THEN IF slot.tag = "value"
              THEN [kind |-> "return", payload |-> slot.payload]
              ELSE [kind |-> "runtime_error", payload |-> "none"]
         ELSE [kind |-> "return_void", payload |-> "none"]
AwaitResumeStrictMut(isVoid, slot) ==
    IF slot.tag = "exception"
    THEN [kind |-> "rethrow", payload |-> slot.payload]
    ELSE IF slot.tag = "value"
         THEN [kind |-> "return", payload |-> slot.payload]
         ELSE [kind |-> "runtime_error", payload |-> "none"]
AwaitResumeSilentMut(isVoid, slot) ==
    IF slot.tag = "exception"
    THEN [kind |-> "rethrow", payload |-> slot.payload]
    ELSE IF slot.tag = "value"
         THEN [kind |-> "return", payload |-> slot.payload]
         ELSE [kind |-> "return_void", payload |-> "none"]
\* awaiter::await_resume.
AwaitResume(isVoid, slot) ==
    IF slot.tag = "exception"
    THEN [kind |-> "rethrow", payload |-> slot.payload]
    ELSE IF ~isVoid
         THEN IF slot.tag = "value"
              THEN [kind |-> "return", payload |-> slot.payload]
              ELSE [kind |-> "runtime_error", payload |-> "none"]
         ELSE [kind |-> "return_void", payload |-> "none"]

\* operator co_await: `return awaiter{std::move(m_inner_awaiter), 0, {}}`.
WrapInit ==
    /\ w_pc = [w \in Wraps |-> "init"]
    /\ w_task = [w \in Wraps |-> "running"]
    /\ w_void = [w \in Wraps |-> FALSE]
    /\ w_caller = [w \in Wraps |-> 0]
    /\ m_original_thread_index = [w \in Wraps |-> 0]
    /\ m_result = [w \in Wraps |-> Monostate]
    /\ w_inner = [w \in Wraps |-> NoResult]
    /\ w_doneOn = [w \in Wraps |-> 0]
    /\ w_queue = [r \in Reactors |-> <<>>]
    /\ w_outcome = [w \in Wraps |-> NotCalled]
    /\ w_resumedOn = [w \in Wraps |-> 0]
    /\ w_writes = [w \in Wraps |-> 0]
    /\ w_posts = [w \in Wraps |-> 0]
    /\ w_sync = [w \in Wraps |-> FALSE]
    /\ w_via = [w \in Wraps |-> "none"]

AwaitReadyMut(innerReady) == innerReady
\* awaiter::await_ready: `return false`, whatever the inner awaiter's state.
AwaitReady(innerReady) == FALSE

\* A task on thread th awaits switch_to_io_loop(op), op ready at once or not.
\* await_ready is false, so await_suspend runs: it captures the origin and
\* launches the detached lambda, which starts awaiting the inner awaiter.
\* (Were await_ready true, the task would go on inline into await_resume.)
AwaitSuspend(w, th, isVoid, ready) ==
    /\ UNCHANGED <<lockVars, resumeVars, holdVars>>
    /\ w_pc[w] = "init"
    /\ w_void' = [w_void EXCEPT ![w] = isVoid]
    /\ w_caller' = [w_caller EXCEPT ![w] = th]
    /\ w_sync' = [w_sync EXCEPT ![w] = ready]
    /\ IF AwaitReady(ready)
       THEN /\ w_pc' = [w_pc EXCEPT ![w] = "skipped"]
            /\ w_task' = [w_task EXCEPT ![w] = "resumed"]
            /\ w_via' = [w_via EXCEPT ![w] = "inline"]
            /\ w_outcome' = [w_outcome EXCEPT ![w] = AwaitResume(isVoid, m_result[w])]
            /\ w_resumedOn' = [w_resumedOn EXCEPT ![w] = th]
            /\ UNCHANGED m_original_thread_index
       ELSE /\ w_pc' = [w_pc EXCEPT ![w] = "awaiting_inner"]
            /\ w_task' = [w_task EXCEPT ![w] = "suspended"]
            /\ m_original_thread_index' =
                   [m_original_thread_index EXCEPT ![w] = OriginIndex(CurrentThreadIndex(th))]
            /\ UNCHANGED <<w_via, w_outcome, w_resumedOn>>
    /\ UNCHANGED <<m_result, w_inner, w_doneOn, w_queue, w_writes, w_posts>>

\* The inner awaiter completes on thread th (the caller's thread, inside
\* await_suspend, when it was ready at once) with result res; the lambda
\* records it in m_result.
InnerComplete(w, th, res) ==
    /\ UNCHANGED <<lockVars, resumeVars, holdVars>>
    /\ w_pc[w] = "awaiting_inner"
    /\ w_sync[w] => th = w_caller[w]
    /\ res \in InnerResults(w_void[w])
    /\ w_pc' = [w_pc EXCEPT ![w] = "stored"]
    /\ w_inner' = [w_inner EXCEPT ![w] = res]
    /\ w_doneOn' = [w_doneOn EXCEPT ![w] = th]
    /\ m_result' = [m_result EXCEPT ![w] = StoreOutcome(w_void[w], @, res)]
    /\ w_writes' = [w_writes EXCEPT ![w] =
                        IF StoreOutcome(w_void[w], m_result[w], res) # m_result[w]
                        THEN @ + 1 ELSE @]
    /\ UNCHANGED <<w_task, w_void, w_caller, m_original_thread_index, w_queue,
                   w_outcome, w_resumedOn, w_posts, w_sync, w_via>>

\* The lambda's last statement: getIOLoop(m_original_thread_index)
\* ->queueInLoop([handle]{ handle.resume(); }).
PostResumption(w) ==
    /\ UNCHANGED <<lockVars, resumeVars, holdVars>>
    /\ w_pc[w] = "stored"
    /\ w_pc' = [w_pc EXCEPT ![w] = "posted"]
    /\ w_queue' = [w_queue EXCEPT ![m_original_thread_index[w]] = Append(@, w)]
    /\ w_posts' = [w_posts EXCEPT ![w] = @ + 1]
    /\ UNCHANGED <<w_task, w_void, w_caller, m_original_thread_index, m_result,
                   w_inner, w_doneOn, w_outcome, w_resumedOn, w_writes, w_sync, w_via>>

\* Reactor r runs the queued handle.resume(): the task continues in
\* await_resume.
WrapResume(r) ==
    /\ UNCHANGED <<lockVars, resumeVars, holdVars>>
    /\ w_queue[r] # <<>>
    /\ LET w == Head(w_queue[r])
       IN /\ w_task' = [w_task EXCEPT ![w] = "resumed"]
          /\ w_outcome' = [w_outcome EXCEPT ![w] = AwaitResume(w_void[w], m_result[w])]
          /\ w_resumedOn' = [w_resumedOn EXCEPT ![w] = r]
          /\ w_via' = [w_via EXCEPT ![w] = "queue"]
    /\ w_queue' = [w_queue EXCEPT ![r] = Tail(@)]
    /\ UNCHANGED <<w_pc, w_void, w_caller, m_original_thread_index, m_result,
                   w_inner, w_doneOn, w_writes, w_posts, w_sync>>

WrapNext ==
    \/ \E w \in Wraps, th \in Threads, v \in BOOLEAN, ready \in BOOLEAN :
           AwaitSuspend(w, th, v, ready)
    \/ \E w \in Wraps, th \in Threads, res \in InnerResults(FALSE) \cup InnerResults(TRUE) :
           InnerComplete(w, th, res)
    \/ \E w \in Wraps : PostResumption(w)
    \/ \E r \in Reactors : WrapResume(r)

\* await_resume on its own: any awaiter type, any content of its slot.
Awaiters == 1..NAwaiters
ResumeInit ==
    /\ r_void \in [Awaiters -> BOOLEAN]
    /\ r_slot \in [Awaiters -> Slots(FALSE)]
    /\ \A a \in Awaiters : r_slot[a] \in Slots(r_void[a])
    /\ r_out = [a \in Awaiters |-> NotCalled]

CallAwaitResume(a) ==
    /\ UNCHANGED <<lockVars, wrapVars, holdVars>>
    /\ r_out[a] = NotCalled
    /\ r_out' = [r_out EXCEPT ![a] = AwaitResume(r_void[a], r_slot[a])]
    /\ UNCHANGED <<r_void, r_slot>>

ResumeIdle ==
    /\ r_void = [a \in Awaiters |-> FALSE]
    /\ r_slot = [a \in Awaiters |-> Monostate]
    /\ r_out = [a \in Awaiters |-> NotCalled]

\* ------------------------------------------------------------ isHolding
NRes == 2          \* AwaitableGuarded<T> instances
NOthers == 1       \* T objects that are no resource's m_data (copies, locals)

Resources == 1..NRes
\* The T objects: each resource's m_data member, and the other ones.
DataOf(g) == [owner |-> g, k |-> 0]
Objects == {DataOf(g) : g \in Resources} \cup {[owner |-> 0, k |-> k] : k \in 1..NOthers}
\* std::addressof: distinct objects have distinct addresses.
AddressOf(o) == IF o.owner # 0 THEN o.owner ELSE NRes + o.k

NoCall == [res |-> 0, ref |-> DataOf(0), result |-> FALSE]

IsHoldingByValueMut(g, ref) == ih_value[DataOf(g)] = ih_value[ref]
\* AwaitableGuarded::isHolding(const T& a_data).
IsHolding(g, ref) == AddressOf(DataOf(g)) = AddressOf(ref)

\* Any lock state, any holder, any values in the objects.
HoldInit ==
    /\ ih_state \in [Resources -> UniqueState..1]
    /\ ih_mine \in [Resources -> BOOLEAN]
    /\ \A g \in Resources : ih_mine[g] => ih_state[g] # FreeState
    /\ ih_value \in [Objects -> Values]
    /\ ih_call = NoCall

HoldIdle ==
    /\ ih_state = [g \in Resources |-> FreeState]
    /\ ih_mine = [g \in Resources |-> FALSE]
    /\ ih_value = [o \in Objects |-> "V1"]
    /\ ih_call = NoCall

\* A caller applies g.isHolding(ref): a const noexcept member that only
\* compares two addresses.
CallIsHolding(g, ref) ==
    /\ UNCHANGED <<lockVars, wrapVars, resumeVars>>
    /\ ih_call = NoCall
    /\ ih_call' = [res |-> g, ref |-> ref, result |-> IsHolding(g, ref)]
    /\ UNCHANGED <<ih_state, ih_mine, ih_value>>

\* ------------------------------------------------------- specifications
vars == <<lockVars, wrapVars, resumeVars, holdVars>>

\* The lock: tasks on the reactors acquire, move and destroy proxies.
Init == LockInit /\ WrapInit /\ ResumeIdle /\ HoldIdle
Next == LockNext
Spec == Init /\ [][Next]_vars

\* The continuation wrapper.
WrapSpec == Init /\ [][WrapNext]_vars

\* await_resume applied to every slot content.
ResumeSpecInit == LockInit /\ WrapInit /\ ResumeInit /\ HoldIdle
ResumeSpecNext == \E a \in Awaiters : CallAwaitResume(a)
ResumeSpec == ResumeSpecInit /\ [][ResumeSpecNext]_vars

\* isHolding applied to every resource and object, in every lock state.
HoldSpecInit == LockInit /\ WrapInit /\ ResumeIdle /\ HoldInit
HoldSpecNext == \E g \in Resources, ref \in Objects : CallIsHolding(g, ref)
HoldSpec == HoldSpecInit /\ [][HoldSpecNext]_vars

\* Reactors keep running their queues, a try_lock in progress completes, and
\* every holder lets its proxy objects go out of scope.
LockFairness ==
    /\ \A r \in Reactors : WF_vars(RunSpinUnique(r))
    /\ \A r \in Reactors : WF_vars(RunSpinShared(r))
    /\ \A r \in Reactors : WF_vars(RunResume(r))
    /\ \A t \in Tasks : WF_vars(SharedCasStep(t))
    /\ \A t \in Tasks : WF_vars(DestroyProxy(t, 1))

LiveSpec == Init /\ [][Next]_vars /\ LockFairness

\* The lock with holders that write the guarded value.
DataNext == LockNext \/ \E t \in Tasks, v \in DataValues : WriteData(t, v)
DataSpec == Init /\ [][DataNext]_vars

\* The lock with holders that await it again while holding.
ReentryNext ==
    \/ LockNext
    \/ \E u \in Tasks, t \in Tasks : ReacquireUnique(u, t)
    \/ \E u \in Tasks, t \in Tasks : ReacquireShared(u, t)
ReentrySpec == Init /\ [][ReentryNext]_vars

\* ------------------------------------------------------------ lock claims
\* A task has a live proxy object.
HasProxy(t) == Len(proxies[t]) > 0
\* A task's acquisition succeeded and its last proxy object is not destroyed.
Holder(t) == pc[t] \in {"resuming", "holding"}
SharedHolders == {t \in Tasks : Holder(t) /\ mode[t] = "shared"}
UniqueHolders == {t \in Tasks : Holder(t) /\ mode[t] = "unique"}
Pending(t) == pc[t] \in {"first_cas", "suspended", "spin_cas", "resuming"}

\* C1: mutual exclusion - a task's live UniqueProxy never coexists with a
\* live proxy (shared or unique) of another task of the same resource.
C1_MutualExclusion ==
    \A t, u \in Tasks :
        (t # u /\ HasProxy(t) /\ HasProxy(u)) =>
            (mode[t] = "shared" /\ mode[u] = "shared")

\* C2: exactly one release per acquisition - over a proxy's whole lifetime,
\* moves included, the lock state is released once: never twice, and once
\* by the time all of the acquisition's proxy objects are destroyed.
C2_ExactlyOneRelease ==
    \A t \in Tasks :
        /\ releases[t] <= 1
        /\ pc[t] = "done" => releases[t] = 1

\* C3: state invariant - m_state = 0 iff free, m_state = -1 iff exactly one
\* unique holder, m_state = n > 0 iff exactly n shared holders, and m_state
\* is never below -1.
C3_StateInvariant ==
    /\ m_state >= UniqueState
    /\ (m_state = FreeState) <=> (SharedHolders = {} /\ UniqueHolders = {})
    /\ (m_state = UniqueState) <=>
           (Cardinality(UniqueHolders) = 1 /\ SharedHolders = {})
    /\ (m_state > 0) <=> (SharedHolders # {} /\ UniqueHolders = {})
    /\ (m_state > 0) => (Cardinality(SharedHolders) = m_state)

\* C4: liveness - with every holder destroying its proxy and every reactor
\* running its queued callbacks, every pending lock_shared / lock_unique
\* call eventually acquires and its task is resumed with the proxy.
C4_Liveness == \A t \in Tasks : Pending(t) ~> HasProxy(t)

\* C5: quiescence - in every state in which no proxy of the resource is
\* alive, m_state = 0. An acquisition whose try_lock succeeded in spin() and
\* whose proxy await_resume has yet to build counts as alive here.
C5_Quiescence == (\A t \in Tasks : ~Holder(t)) => m_state = FreeState

AllCalledShared == \A t \in Tasks : mode[t] = "shared"
AllHoldShared == \A t \in Tasks : HasProxy(t) /\ mode[t] = "shared"
NoRelease == \A t \in Tasks : releases[t] = 0

Resumed(w) == w_task[w] = "resumed"
OnReactor(w) == w_caller[w] \in Reactors
Queued(w) == \E r \in Reactors : \E i \in 1..Len(w_queue[r]) : w_queue[r][i] = w

\* C6: thread affinity - a task that awaited switch_to_io_loop(op) on
\* reactor R is resumed on reactor R, and only after op has completed,
\* whichever thread op completed on.
C6_ThreadAffinity ==
    \A w \in Wraps :
        /\ (Resumed(w) /\ OnReactor(w)) => w_resumedOn[w] = w_caller[w]
        /\ (Resumed(w) \/ Queued(w)) => w_pc[w] \in {"stored", "posted"}
        /\ (Queued(w) /\ OnReactor(w)) =>
               \E i \in 1..Len(w_queue[w_caller[w]]) : w_queue[w_caller[w]][i] = w

\* Resumed on reactor 1 after the inner operation completed on the thread
\* that is no IO loop.
C6_Witness ==
    \E w \in Wraps :
        /\ Resumed(w) /\ w_caller[w] = 1 /\ w_resumedOn[w] = 1
        /\ w_doneOn[w] = NReactors

\* C7: error fidelity - when the inner operation fails with error E,
\* awaiting the wrapper raises exactly E and returns no value, in the task
\* resumed on the origin reactor.
C7_ErrorFidelity ==
    \A w \in Wraps :
        (Resumed(w) /\ ~w_inner[w].ok) =>
            /\ w_outcome[w] = [kind |-> "rethrow", payload |-> w_inner[w].payload]
            /\ w_resumedOn[w] = m_original_thread_index[w]
            /\ OnReactor(w) => w_resumedOn[w] = w_caller[w]

\* A value-returning operation failed with E2 on another reactor.
C7_Witness ==
    \E w \in Wraps :
        /\ Resumed(w) /\ ~w_void[w] /\ w_inner[w] = [ok |-> FALSE, payload |-> "E2"]
        /\ w_caller[w] = 1 /\ w_doneOn[w] = 0
        /\ w_outcome[w].kind = "rethrow"

C12_AlwaysSuspends ==
    \A w \in Wraps :
        /\ w_via[w] # "inline"
        /\ w_pc[w] \in {"awaiting_inner", "stored"} => w_task[w] = "suspended"
        /\ (w_pc[w] = "posted" /\ ~Resumed(w)) =>
               /\ w_task[w] = "suspended"
               /\ \E i \in 1..Len(w_queue[m_original_thread_index[w]]) :
                      w_queue[m_original_thread_index[w]][i] = w
        /\ Resumed(w) =>
               /\ w_via[w] = "queue" /\ w_posts[w] = 1 /\ w_pc[w] = "posted"
               /\ w_resumedOn[w] = m_original_thread_index[w]

\* An operation that was complete when awaited: the task was suspended all
\* the same and resumed from reactor 1's queue.
C12_Witness ==
    \E w \in Wraps :
        /\ w_sync[w] /\ Resumed(w) /\ w_via[w] = "queue"
        /\ w_caller[w] = 1 /\ w_doneOn[w] = 1 /\ w_resumedOn[w] = 1

\* C13: void support - when a void inner operation completes successfully,
\* awaiting the wrapper completes on the origin reactor without producing a
\* value and without raising an error.
C13_VoidSupport ==
    \A w \in Wraps :
        (Resumed(w) /\ w_void[w] /\ w_inner[w].ok) =>
            /\ w_outcome[w] = [kind |-> "return_void", payload |-> "none"]
            /\ w_resumedOn[w] = m_original_thread_index[w]
            /\ OnReactor(w) => w_resumedOn[w] = w_caller[w]

\* A void operation awaited on reactor 1 succeeded on the thread that is no
\* IO loop; the task went on, on reactor 1, with nothing returned or thrown.
C13_Witness ==
    \E w \in Wraps :
        /\ Resumed(w) /\ w_void[w] /\ w_inner[w].ok
        /\ w_caller[w] = 1 /\ w_doneOn[w] = NReactors
        /\ w_outcome[w].kind = "return_void" /\ w_resumedOn[w] = 1

\* C19: origin fallback - when the thread index captured at suspension is
\* not a valid reactor index (>= the number of reactors) the origin is
\* reactor 0 and the resumption is posted to reactor 0; when it is valid
\* the origin is exactly that index.
C19_OriginFallback ==
    \A w \in Wraps :
        w_pc[w] # "init" =>
            /\ CurrentThreadIndex(w_caller[w]) < NReactors =>
                   m_original_thread_index[w] = CurrentThreadIndex(w_caller[w])
            /\ CurrentThreadIndex(w_caller[w]) >= NReactors =>
                   /\ m_original_thread_index[w] = 0
                   /\ \A r \in Reactors : \A i \in 1..Len(w_queue[r]) :
                          w_queue[r][i] = w => r = 0
                   /\ Resumed(w) => w_resumedOn[w] = 0

\* Awaited on the thread that is no IO loop, resumed by reactor 0.
C19_Witness ==
    \E w \in Wraps :
        /\ w_caller[w] = NReactors /\ m_original_thread_index[w] = 0
        /\ Resumed(w) /\ w_resumedOn[w] = 0

\* ----------------------------------------------- lock protocol claims
\* C16 as claimed: a shared attempt (first check or re-check) retries its
\* read-then-CAS pair when the CAS fails, so it reports failure only when
\* the state is negative; it never fails while m_state >= 0.
C16_SharedAttempt ==
    [][\A t \in Tasks :
          (/\ mode'[t] = "shared"
           /\ pc[t] \in {"idle", "first_cas", "spin_cas"}
           /\ pc'[t] = "suspended") => m_state < 0]_vars

\* C16 amended: a shared attempt loads m_state once and, when the value is
\* not negative, makes one compare-exchange from the loaded value to that
\* value plus one. It succeeds iff m_state still has the loaded value; it
\* reports failure, leaving m_state as it is, when the loaded value is
\* negative or when m_state changed between the load and the CAS, also to
\* another value >= 0.
C16_SharedAttemptAmended ==
    [][\A t \in Tasks :
          /\ (pc[t] \in {"first_cas", "spin_cas"} /\ pc'[t] # pc[t]) =>
                 IF m_state = current[t]
                 THEN /\ pc'[t] = (IF pc[t] = "first_cas" THEN "holding" ELSE "resuming")
                      /\ m_state' = current[t] + 1
                 ELSE pc'[t] = "suspended" /\ m_state' = m_state
          /\ (mode'[t] = "shared" /\ pc[t] = "idle" /\ pc'[t] # "idle") =>
                 /\ m_state' = m_state
                 /\ IF m_state < 0 THEN pc'[t] = "suspended"
                    ELSE pc'[t] = "first_cas" /\ current'[t] = m_state
          /\ (pc[t] = "suspended" /\ pc'[t] = "spin_cas") =>
                 m_state >= 0 /\ m_state' = m_state /\ current'[t] = m_state]_vars

\* Only lock_shared was called and nothing was released, so m_state was
\* never negative: the suspended task's attempt lost its CAS.
C16_Witness ==
    /\ AllCalledShared /\ NoRelease /\ m_state >= 1
    /\ \E t \in Tasks : pc[t] = "suspended"

\* C17: synchronous fast path - when the first attempt of lock_shared
\* (state >= 0 and the CAS succeeds) or of lock_unique (state = 0) succeeds,
\* the task does not suspend, no callback is enqueued on any reactor, and
\* the proxy is produced at once with m_state already updated.
C17_FastPath ==
    [][\A t \in Tasks :
          /\ (pc[t] = "idle" /\ mode'[t] = "unique" /\ m_state = FreeState) =>
                 /\ pc'[t] = "holding" /\ proxies'[t] = <<TRUE>>
                 /\ queue' = queue /\ m_state' = UniqueState
          /\ (pc[t] = "first_cas" /\ pc'[t] # pc[t] /\ m_state = current[t]) =>
                 /\ pc'[t] = "holding" /\ proxies'[t] = <<TRUE>>
                 /\ queue' = queue /\ m_state' = current[t] + 1]_vars

\* The only task that called holds its proxy, and no queue has a callback.
C17_Witness ==
    \E t \in Tasks :
        /\ pc[t] = "holding" /\ HasProxy(t) /\ releases[t] = 0
        /\ \A u \in Tasks \ {t} : pc[u] = "idle"
        /\ \A r \in Reactors : queue[r] = <<>>
        /\ m_state # FreeState

CallbacksOf(t) ==
    {<<r, i>> \in Reactors \X (1..NTasks) : i <= Len(queue[r]) /\ queue[r][i].task = t}

\* C20: no lost wakeup, no double resume - each suspended lock waiter has
\* exactly one callback outstanding on its reactor (its re-check, queued or
\* being run, or its resumption, never both, never none), and a waiter is
\* resumed at most once per acquisition: no callback of it is left once
\* it has been resumed, and none exists before it suspends.
C20_OneCallback ==
    \A t \in Tasks :
        /\ \A c \in CallbacksOf(t) : c[1] = home[t]
        /\ pc[t] = "suspended" =>
               /\ Cardinality(CallbacksOf(t)) = 1
               /\ \A c \in CallbacksOf(t) : queue[c[1]][c[2]] = SpinCallback(t)
        /\ pc[t] = "resuming" =>
               /\ Cardinality(CallbacksOf(t)) = 1
               /\ \A c \in CallbacksOf(t) : queue[c[1]][c[2]] = ResumeCallback(t)
        /\ pc[t] = "spin_cas" =>
               CallbacksOf(t) = {} /\ running[home[t]] = t
        /\ pc[t] \in {"idle", "first_cas", "holding", "done"} => CallbacksOf(t) = {}
        /\ \A r \in Reactors : Len(queue[r]) <= NTasks

\* A waiter whose re-check failed: its one callback is the next re-check.
C20_Witness ==
    \E t \in Tasks :
        /\ pc[t] = "suspended" /\ polls = 1
        /\ queue[home[t]] = <<SpinCallback(t)>>

\* ------------------------------------------------------ isHolding claim
\* C15: isHolding(ref) returns true iff ref is the very data instance owned
\* by this resource (identity, not equal value); the result does not depend
\* on the lock state or on who holds the lock, and the call leaves m_state
\* and the data unchanged.
C15_IsHolding ==
    /\ [](ih_call # NoCall =>
             (ih_call.result <=> ih_call.ref = DataOf(ih_call.res)))
    /\ [][ih_call' # ih_call =>
             ih_state' = ih_state /\ ih_mine' = ih_mine /\ ih_value' = ih_value]_vars

\* isHolding said false for another object with the same value as the
\* resource's data, while the caller holds the resource's unique lock.
C15_Witness ==
    /\ ih_call # NoCall /\ ~ih_call.result
    /\ ih_call.ref.owner = 0
    /\ ih_value[ih_call.ref] = ih_value[DataOf(ih_call.res)]
    /\ ih_state[ih_call.res] = UniqueState /\ ih_mine[ih_call.res]

\* ----------------------------------------------- visibility, reentrancy
\* C11: visibility - the guarded value read through any proxy acquired
\* after a UniqueProxy was released (by a holder that has not written
\* itself) is the value the resource had at that release, the last one
\* written through that UniqueProxy; and a unique acquisition succeeds only
\* when no shared proxy of another task is still held.
C11_Visibility ==
    /\ \A t \in Tasks : (HasProxy(t) /\ ~dirty[t]) => m_data = published
    /\ \A t \in UniqueHolders : \A u \in Tasks \ {t} :
           mode[u] = "shared" => ~HasProxy(u)

\* C14: reentrant misuse - an acquisition awaited by a task that still
\* holds a proxy of the same resource never succeeds. Stated for a holder
\* of a UniqueProxy awaiting lock_shared or lock_unique and for a holder of
\* a SharedProxy awaiting lock_unique (lock_shared by a shared holder is
\* admitted by the counter and is left out here).
C14_ReentrantNeverResumed ==
    \A u \in Tasks :
        (/\ nested[u] # 0
         /\ HasProxy(nested[u])
         /\ ~(mode[nested[u]] = "shared" /\ mode[u] = "shared")) =>
            pc[u] \in {"first_cas", "suspended", "spin_cas"}

====
